---------------------------- MODULE Spec2Model ----------------------------
(***************************************************************************)
(* VoiceAgent.speech_to_text (backend/agents/voice_agent.py): the          *)
(* transcription fallback engine.  One invocation reads the audio file,    *)
(* submits a primary configuration chosen from the file extension, retries *)
(* once with WEBM_OPUS@48000 on an empty result, and on an exception       *)
(* inside the try block sweeps 4 encodings x 4 sample rates.               *)
(*                                                                         *)
(* The recognizer (Google Cloud Speech) is external.  Its contract, as the *)
(* client library documents it and as the design document states it: a     *)
(* call raises or returns a sequence of segments, and every segment        *)
(* carries one or more alternatives.  Transcript texts are arbitrary;      *)
(* the texts enumerated here are ordinary words, blanks and the empty      *)
(* text.                                                                   *)
(***************************************************************************)
EXTENDS Integers, Sequences, FiniteSets, TLC

(* ------------------------------ bounds -------------------------------- *)

\* number of invocation frames that may exist on one VoiceAgent
NumInvocations == 2
\* largest number of segments in one enumerated recognizer response
MaxSegs == 2

Invocations == 1..NumInvocations

(* ----------------------------- characters ----------------------------- *)

\* str.lower() on the characters that occur in the modelled paths
LowerChar(c) ==
  CASE c = "W" -> "w"
    [] c = "E" -> "e"
    [] c = "B" -> "b"
    [] c = "M" -> "m"
    [] c = "A" -> "a"
    [] OTHER -> c

Lower(s) == [k \in 1..Len(s) |-> LowerChar(s[k])]

\* str.rfind for a single character: 0 when absent (Python: -1, 0-based)
RFind(s, c) ==
  IF \E k \in 1..Len(s) : s[k] = c
    THEN CHOOSE k \in 1..Len(s) : s[k] = c /\ \A m \in (k+1)..Len(s) : s[m] # c
    ELSE 0

\* os.path.splitext(p)[1]: the suffix from the last dot of the last path
\* component, unless that component has only leading dots before it
splitext(p) ==
  LET sepIndex == RFind(p, "/")
      dotIndex == RFind(p, ".")
  IN IF dotIndex > sepIndex /\ \E k \in (sepIndex+1)..(dotIndex-1) : p[k] # "."
       THEN SubSeq(p, dotIndex, Len(p))
       ELSE <<>>

(* --------------------------- configurations --------------------------- *)

\* an unset proto field reads as 0
RecognitionConfig(enc, rate, channels) ==
  [encoding |-> enc,
   sample_rate_hertz |-> rate,
   language_code |-> "en-US",
   enable_automatic_punctuation |-> TRUE,
   use_enhanced |-> TRUE,
   model |-> "latest_long",
   audio_channel_count |-> channels]

DotWebm == <<".", "w", "e", "b", "m">>

\* faulty variant: compares the extension as spelled in the path
PrimaryConfigCaseSensitive(path) ==
  IF splitext(path) = DotWebm
    THEN RecognitionConfig("OGG_OPUS", 48000, 1)
    ELSE RecognitionConfig("LINEAR16", 0, 0)

\* faulty variant: the .webm config is built without a channel count
PrimaryConfigNoChannels(path) ==
  IF Lower(splitext(path)) = DotWebm
    THEN RecognitionConfig("OGG_OPUS", 48000, 0)
    ELSE RecognitionConfig("LINEAR16", 0, 0)

PrimaryConfig(path) ==
  IF Lower(splitext(path)) = DotWebm
    THEN RecognitionConfig("OGG_OPUS", 48000, 1)
    ELSE RecognitionConfig("LINEAR16", 0, 0)

\* faulty variant: retries with another encoding
SecondaryConfigOgg == RecognitionConfig("OGG_OPUS", 48000, 0)

SecondaryConfig == RecognitionConfig("WEBM_OPUS", 48000, 0)

encodings == <<"LINEAR16", "OGG_OPUS", "WEBM_OPUS", "MP3">>

common_rates == <<48000, 44100, 16000, 8000>>


\* faulty variant: walks the table rate-outer, encoding-inner
NextPairRateOuter(i, j) ==
  IF i < Len(encodings) THEN <<i + 1, j>> ELSE <<1, j + 1>>

\* faulty variant: the inner loop starts over without the outer one advancing
NextPairSameEncoding(i, j) ==
  IF j < Len(common_rates) THEN <<i, j + 1>> ELSE <<i, 1>>

\* the loop variables after one more inner iteration (for ... for ...)
NextPair(i, j) ==
  IF j < Len(common_rates) THEN <<i, j + 1>> ELSE <<i + 1, 1>>

IsLastPair(i, j) == i = Len(encodings) /\ j = Len(common_rates)

SilenceSentinel == "No speech detected in audio file"

FailureSentinel == "Could not transcribe audio. Speech recognition failed."

(* ----------------------------- recognizer ----------------------------- *)

\* a segment is its list of alternatives, best first
SegmentPool == {<<"hello">>, <<"world", "word">>, <<" hi ">>, <<"">>}

Responses == UNION {[1..n -> SegmentPool] : n \in 0..MaxSegs}

Raise == [raised |-> TRUE, results |-> <<>>]

Returns(results) == [raised |-> FALSE, results |-> results]

NoAnswer == [raised |-> FALSE, results |-> <<<<"<no call yet>">>>>]

AllAnswers == {Raise} \cup {Returns(r) : r \in Responses}

\* recordings on disk: what was said, and the container they were made in
Speech1 == [codec |-> "OGG_OPUS", rate |-> 44100,
            words |-> <<<<"hello">>, <<"world", "word">>>>]

Speech2 == [codec |-> "WEBM_OPUS", rate |-> 48000, words |-> <<<<" hi ">>>>]

NoContent == [codec |-> "none", rate |-> 0, words |-> <<>>]

PathWebm == <<"a", ".", "w", "e", "b", "m">>

PathUpperWebm == <<"a", ".", "W", "E", "B", "M">>

PathMixedWebm == <<"b", ".", "W", "e", "b", "M">>

PathWav == <<"a", ".", "w", "a", "v">>

PathNoExt == <<"a">>

PathDotFile == <<".", "w", "e", "b", "m">>

PathMissing == <<"x", ".", "w", "e", "b", "m">>

Paths == {PathWebm, PathUpperWebm, PathMixedWebm, PathWav, PathNoExt,
          PathDotFile, PathMissing}

\* the files the interleaved invocations are given
SharedPaths == {PathWebm, PathUpperWebm, PathWav, PathMissing}

\* the files that exist, with their bytes
Disk ==
  [p \in Paths \ {PathMissing} |->
     IF p \in {PathWebm, PathUpperWebm, PathNoExt} THEN Speech2 ELSE Speech1]

\* a recognizer about which nothing is known: any call may raise or return
\* any response
AnyRecognizer ==
  [deterministic |-> FALSE, unsupported |-> {}, needsRate |-> FALSE,
   rejectsMono |-> FALSE]

\* recognizers whose answer is a function of (config, audio bytes)
\* one that accepts every config, one that rejects both primary configs, and
\* one that rejects every encoding
DeterministicRecognizers ==
  {[deterministic |-> TRUE, unsupported |-> {}, needsRate |-> FALSE,
    rejectsMono |-> FALSE],
   [deterministic |-> TRUE, unsupported |-> {}, needsRate |-> TRUE,
    rejectsMono |-> TRUE],
   [deterministic |-> TRUE,
    unsupported |-> {"LINEAR16", "OGG_OPUS", "WEBM_OPUS", "MP3"},
    needsRate |-> FALSE, rejectsMono |-> FALSE]}

Recognize(stub, cfg, audio) ==
  IF \/ cfg.encoding \in stub.unsupported
     \/ stub.needsRate /\ cfg.sample_rate_hertz = 0
     \/ stub.rejectsMono /\ cfg.audio_channel_count = 1
    THEN Raise
    ELSE IF cfg.encoding = audio.codec /\ cfg.sample_rate_hertz \in {0, audio.rate}
           THEN Returns(audio.words)
           ELSE Returns(<<>>)

\* the answers self.stt_client.recognize(config=config, audio=audio) may give
Answers(stub, cfg, audio) ==
  IF stub.deterministic THEN {Recognize(stub, cfg, audio)} ELSE AllAnswers

(* ------------------------------ join rule ----------------------------- *)

RECURSIVE JoinTexts(_)
\* " ".join(texts)
JoinTexts(texts) ==
  IF Len(texts) = 0 THEN ""
  ELSE IF Len(texts) = 1 THEN texts[1]
  ELSE texts[1] \o " " \o JoinTexts(Tail(texts))

\* faulty variant: leaves empty texts out of the join
TranscriptSkipEmpty(results) ==
  JoinTexts(SelectSeq([k \in 1..Len(results) |-> results[k][1]],
                      LAMBDA t : t # ""))

\* " ".join(result.alternatives[0].transcript for result in response.results)
Transcript(results) ==
  JoinTexts([k \in 1..Len(results) |-> results[k][1]])

(* ------------------------------- state -------------------------------- *)

VARIABLES
  stt_client,       \* self.stt_client: the recognizer the agent was built with
  pc,               \* per invocation: where its frame of speech_to_text stands
  audio_file_path,  \* per invocation: the argument
  content,          \* per invocation: the bytes read from the file
  config,           \* per invocation: the local config
  response,         \* per invocation: the local response (last call that returned)
  enc_i,            \* per invocation: index of the outer loop over encodings
  rate_j,           \* per invocation: index of the inner loop over common_rates
  result,           \* per invocation: the string returned
  calls,            \* history: the recognizer calls made (call site, config), in order
  first,            \* history: the answer of the primary call
  second,           \* history: the answer of the secondary call
  answer,           \* history: the answer of the latest call
  raisedIn,         \* history: the phases in which a recognizer call raised
  removed,          \* the files deleted from disk since the start
  proc_pc,          \* per invocation: where its call of VoiceAgent.process stands
  input_data,       \* per invocation: the argument of process
  proc_response,    \* per invocation: what process returned
  req_pc,           \* per request: where process_voice_input stands
  has_audio,        \* per request: whether the form carried an audio file
  audio_data,       \* per request: the local audio_data is the temp file path
  temp_files,       \* the requests whose uploads/temp_audio_<id>.webm exists
  scheduled,        \* per request: os.remove was added to background_tasks
  http_response,    \* per request: the response the handler returned
  proc_outcome      \* history, per request: what processor.process_request did

sttVars == <<stt_client, pc, audio_file_path, content, config, response, enc_i,
             rate_j, result, calls, first, second, answer, raisedIn>>

processVars == <<removed, proc_pc, input_data, proc_response>>

routeVars == <<req_pc, has_audio, audio_data, temp_files, scheduled,
               http_response, proc_outcome>>

vars == <<sttVars, processVars, routeVars>>

\* number of /process requests in flight
NumRequests == 2

Requests == 1..NumRequests

NoPath == <<>>

NoConfig == RecognitionConfig("ENCODING_UNSPECIFIED", 0, 0)

NoResult == "<not returned>"

\* a frame before its call and after its return
FreshFrame(p) ==
  /\ audio_file_path' = [audio_file_path EXCEPT ![p] = NoPath]
  /\ content' = [content EXCEPT ![p] = NoContent]
  /\ config' = [config EXCEPT ![p] = NoConfig]
  /\ response' = [response EXCEPT ![p] = <<>>]
  /\ enc_i' = [enc_i EXCEPT ![p] = 1]
  /\ rate_j' = [rate_j EXCEPT ![p] = 1]
  /\ result' = [result EXCEPT ![p] = NoResult]
  /\ calls' = [calls EXCEPT ![p] = <<>>]
  /\ first' = [first EXCEPT ![p] = NoAnswer]
  /\ second' = [second EXCEPT ![p] = NoAnswer]
  /\ answer' = [answer EXCEPT ![p] = NoAnswer]
  /\ raisedIn' = [raisedIn EXCEPT ![p] = {}]

InitFrames ==
  /\ pc = [p \in Invocations |-> "idle"]
  /\ audio_file_path = [p \in Invocations |-> NoPath]
  /\ content = [p \in Invocations |-> NoContent]
  /\ config = [p \in Invocations |-> NoConfig]
  /\ response = [p \in Invocations |-> <<>>]
  /\ enc_i = [p \in Invocations |-> 1]
  /\ rate_j = [p \in Invocations |-> 1]
  /\ result = [p \in Invocations |-> NoResult]
  /\ calls = [p \in Invocations |-> <<>>]
  /\ first = [p \in Invocations |-> NoAnswer]
  /\ second = [p \in Invocations |-> NoAnswer]
  /\ answer = [p \in Invocations |-> NoAnswer]
  /\ raisedIn = [p \in Invocations |-> {}]

NoInput == [action |-> "<no call>"]

NoResponse == [status |-> "<not returned>", data |-> [error |-> ""]]

NoHttp == [status_code |-> 0, success |-> FALSE, request_id |-> 0]

\* no call of process and no request yet, every file in place
InitOutside ==
  /\ removed = {}
  /\ proc_pc = [p \in Invocations |-> "idle"]
  /\ input_data = [p \in Invocations |-> NoInput]
  /\ proc_response = [p \in Invocations |-> NoResponse]
  /\ req_pc = [r \in Requests |-> "idle"]
  /\ has_audio = [r \in Requests |-> FALSE]
  /\ audio_data = [r \in Requests |-> FALSE]
  /\ temp_files = {}
  /\ scheduled = [r \in Requests |-> FALSE]
  /\ http_response = [r \in Requests |-> NoHttp]
  /\ proc_outcome = [r \in Requests |-> "none"]

\* an agent whose recognizer is unconstrained
Init == stt_client = AnyRecognizer /\ InitFrames /\ InitOutside

\* an agent whose recognizer is some deterministic stub
InitDeterministic == stt_client \in DeterministicRecognizers /\ InitFrames /\ InitOutside

(* ------------------------------ outcomes ------------------------------ *)

\* faulty variant: enters the sweep on an empty primary result
PrimaryOutcomeSweepOnEmpty(ans) ==
  IF ans.raised THEN "sweep"
  ELSE IF ans.results # <<>> THEN "return"
  ELSE "sweep"

\* faulty variant: tries the secondary config after a primary exception
PrimaryOutcomeRetryOnRaise(ans) ==
  IF ans.raised THEN "secondary"
  ELSE IF ans.results # <<>> THEN "return"
  ELSE "secondary"

\* faulty variant: a non-empty primary result is passed over for the secondary
\* config
PrimaryOutcomeIgnoresResult(ans) ==
  IF ans.raised THEN "sweep" ELSE "secondary"

\* lines 135-146 and 167: what follows the primary call
PrimaryOutcome(ans) ==
  IF ans.raised THEN "sweep"
  ELSE IF ans.results # <<>> THEN "return"
  ELSE "secondary"

\* faulty variant: reports silence when the secondary call raises
SecondaryOutcomeSilenceOnRaise(ans) ==
  IF ans.raised THEN "silence"
  ELSE IF ans.results # <<>> THEN "return"
  ELSE "silence"

\* faulty variant: gives up after the secondary call whatever it returned
SecondaryOutcomeDiscards(ans) ==
  IF ans.raised THEN "sweep" ELSE "silence"

\* lines 158-165 and 167: what follows the secondary call
SecondaryOutcome(ans) ==
  IF ans.raised THEN "sweep"
  ELSE IF ans.results # <<>> THEN "return"
  ELSE "silence"

\* faulty variant: has no inner try: an exception of a sweep attempt escapes
SweepOutcomeUncaught(ans) ==
  IF ans.raised THEN "propagate"
  ELSE IF ans.results # <<>> THEN "return"
  ELSE "continue"

\* faulty variant: ends the sweep at the first empty result
SweepOutcomeBreakOnEmpty(ans) ==
  IF ans.raised THEN "continue"
  ELSE IF ans.results # <<>> THEN "return"
  ELSE "giveup"

\* lines 194-202: what follows one sweep attempt
SweepOutcome(ans) ==
  IF ans.raised THEN "continue"
  ELSE IF ans.results # <<>> THEN "return"
  ELSE "continue"

\* faulty variant: keeps the loop position on the agent: a frame continues from
\* the position of the first frame that is sweeping
SweepPositionShared(p) ==
  LET q == CHOOSE q \in Invocations :
             pc[q] = "sweep" /\ \A r \in Invocations : pc[r] = "sweep" => q <= r
  IN <<enc_i[q], rate_j[q]>>

\* lines 182-183: the loop variables of this frame
SweepPosition(p) == <<enc_i[p], rate_j[p]>>

(* ------------------------------ actions ------------------------------- *)

\* the history of one recognizer call by frame p
Submitted(p, cfg, ans, phase) ==
  /\ calls' = [calls EXCEPT ![p] = Append(@, [phase |-> phase, config |-> cfg])]
  /\ answer' = [answer EXCEPT ![p] = ans]
  /\ raisedIn' = [raisedIn EXCEPT ![p] = IF ans.raised THEN @ \cup {phase} ELSE @]
  /\ response' = [response EXCEPT ![p] = IF ans.raised THEN @ ELSE ans.results]

\* speech_to_text(audio_file_path) is called on frame p
Invoke(p, path) ==
  /\ pc[p] = "idle"
  /\ pc' = [pc EXCEPT ![p] = "open"]
  /\ audio_file_path' = [audio_file_path EXCEPT ![p] = path]
  /\ UNCHANGED <<stt_client, content, config, response, enc_i, rate_j, result,
                 calls, first, second, answer, raisedIn>>
  /\ UNCHANGED <<processVars, routeVars>>

\* the same, on an agent that serves one invocation at a time
InvokeAlone(p, path) ==
  /\ \A q \in Invocations : pc[q] = "idle"
  /\ Invoke(p, path)

\* lines 100-131: open and read the file, build the primary config; an
\* exception of open() leaves speech_to_text
ReadAudio(p) ==
  /\ pc[p] = "open"
  /\ IF audio_file_path[p] \in DOMAIN Disk \ removed
       THEN /\ content' = [content EXCEPT ![p] = Disk[audio_file_path[p]]]
            /\ config' = [config EXCEPT ![p] = PrimaryConfig(audio_file_path[p])]
            /\ pc' = [pc EXCEPT ![p] = "primary"]
       ELSE /\ pc' = [pc EXCEPT ![p] = "raised"]
            /\ UNCHANGED <<content, config>>
  /\ UNCHANGED <<stt_client, audio_file_path, response, enc_i, rate_j, result,
                 calls, first, second, answer, raisedIn>>
  /\ UNCHANGED <<processVars, routeVars>>

\* lines 133-146, 167-180: the primary call and what it leads to
PrimaryCall(p) ==
  /\ pc[p] = "primary"
  /\ \E ans \in Answers(stt_client, config[p], content[p]) :
       /\ Submitted(p, config[p], ans, "primary")
       /\ first' = [first EXCEPT ![p] = ans]
       /\ LET next == PrimaryOutcome(ans) IN
            /\ pc' = [pc EXCEPT ![p] = IF next = "return" THEN "done" ELSE next]
            /\ result' = [result EXCEPT ![p] =
                            IF next = "return" THEN Transcript(ans.results) ELSE @]
            /\ config' = [config EXCEPT ![p] =
                            IF next = "secondary" THEN SecondaryConfig ELSE @]
  /\ UNCHANGED <<stt_client, audio_file_path, content, enc_i, rate_j, second>>
  /\ UNCHANGED <<processVars, routeVars>>

\* lines 148-165, 167-180: the secondary call and what it leads to
SecondaryCall(p) ==
  /\ pc[p] = "secondary"
  /\ \E ans \in Answers(stt_client, config[p], content[p]) :
       /\ Submitted(p, config[p], ans, "secondary")
       /\ second' = [second EXCEPT ![p] = ans]
       /\ LET next == SecondaryOutcome(ans) IN
            /\ pc' = [pc EXCEPT ![p] = IF next = "sweep" THEN "sweep" ELSE "done"]
            /\ result' = [result EXCEPT ![p] =
                            IF next = "return" THEN Transcript(ans.results)
                            ELSE IF next = "silence" THEN SilenceSentinel
                            ELSE @]
  /\ UNCHANGED <<stt_client, audio_file_path, content, config, enc_i, rate_j, first>>
  /\ UNCHANGED <<processVars, routeVars>>

\* lines 182-206: one iteration of the sweep; after the last one, the
\* failure sentinel
SweepAttempt(p) ==
  /\ pc[p] = "sweep"
  /\ LET i == SweepPosition(p)[1]
         j == SweepPosition(p)[2]
         cfg == RecognitionConfig(encodings[i], common_rates[j], 0)
     IN
       /\ config' = [config EXCEPT ![p] = cfg]
       /\ \E ans \in Answers(stt_client, cfg, content[p]) :
            /\ Submitted(p, cfg, ans, "sweep")
            /\ LET next == SweepOutcome(ans)
                   over == next = "giveup" \/ (next = "continue" /\ IsLastPair(i, j))
               IN
                 /\ pc' = [pc EXCEPT ![p] =
                             IF next = "propagate" THEN "raised"
                             ELSE IF next = "return" \/ over THEN "done"
                             ELSE "sweep"]
                 /\ result' = [result EXCEPT ![p] =
                                 IF next = "return" THEN Transcript(ans.results)
                                 ELSE IF over THEN FailureSentinel
                                 ELSE @]
                 /\ enc_i' = [enc_i EXCEPT ![p] =
                                IF next = "continue" /\ ~over THEN NextPair(i, j)[1] ELSE @]
                 /\ rate_j' = [rate_j EXCEPT ![p] =
                                 IF next = "continue" /\ ~over THEN NextPair(i, j)[2] ELSE @]
  /\ UNCHANGED <<stt_client, audio_file_path, content, first, second>>
  /\ UNCHANGED <<processVars, routeVars>>

\* the caller has the string (or the exception) and the frame is gone
Return(p) ==
  /\ pc[p] \in {"done", "raised"}
  /\ pc' = [pc EXCEPT ![p] = "idle"]
  /\ FreshFrame(p)
  /\ UNCHANGED <<stt_client, processVars, routeVars>>

Step(p) ==
  \/ ReadAudio(p)
  \/ PrimaryCall(p)
  \/ SecondaryCall(p)
  \/ SweepAttempt(p)
  \/ Return(p)

Next == \E p \in Invocations : (\E path \in Paths : InvokeAlone(p, path)) \/ Step(p)

Spec == Init /\ [][Next]_vars

\* the same agent when a step that can be taken is taken in the end: each
\* recognizer call returns or raises, and the one running frame runs on
FairSpec == Spec /\ WF_vars(\E p \in Invocations : Step(p))

NextReentrant ==
  \E p \in Invocations : (\E path \in SharedPaths : Invoke(p, path)) \/ Step(p)

\* invocations interleaved on one agent, against a deterministic recognizer
SpecReentrant == InitDeterministic /\ [][NextReentrant]_vars

(* ------------------------- VoiceAgent.process -------------------------- *)

\* the dictionaries process is called with; a key that is absent reads as
\* None, and <<>> is the empty string
ProcessInputs ==
  {[action |-> "transcribe", audio_file_path |-> PathWav],
   [action |-> "transcribe", audio_data |-> PathWebm],
   [action |-> "transcribe", audio_file_path |-> <<>>, audio_data |-> PathUpperWebm],
   [action |-> "transcribe", audio_file_path |-> PathWav, audio_data |-> PathMissing],
   [action |-> "transcribe"],
   [action |-> "transcribe", audio_file_path |-> <<>>],
   [action |-> "transcribe", audio_file_path |-> PathMissing],
   [action |-> "transcribe", audio_data |-> PathMissing, text |-> "hi"],
   [action |-> "text-to-speech", text |-> "hi"],
   [action |-> "text-to-speech", text |-> ""],
   [action |-> "text-to-speech", audio_file_path |-> PathWav],
   [action |-> "summarise", audio_file_path |-> PathWav],
   [text |-> "hi"]}

\* input_data.get("action")
Mode(d) == IF "action" \in DOMAIN d THEN d.action ELSE "<None>"

\* input_data.get("audio_file_path") or input_data.get("audio_data"); <<>>
\* when both are None or empty
PathArgument(d) ==
  IF "audio_file_path" \in DOMAIN d /\ d.audio_file_path # <<>>
    THEN d.audio_file_path
    ELSE IF "audio_data" \in DOMAIN d THEN d.audio_data ELSE <<>>

\* input_data.get("text"), "" standing for None as well
TextArgument(d) == IF "text" \in DOMAIN d THEN d.text ELSE ""

\* faulty variant: the existence check is left out
ExistsAlways(path) == TRUE

\* os.path.exists(audio_file_path)
ExistsOnDisk(path) == path \in DOMAIN Disk \ removed

\* BaseAgent._create_response(data, status)
CreateResponse(data, status) == [status |-> status, data |-> data]

\* BaseAgent._handle_error(e)
HandleError(e) == CreateResponse([error |-> e], "error")

\* lines 83-85: the except clause of process
Caught(e) == [pc |-> "done", response |-> HandleError(e)]

\* the files something else may delete while process runs
Removable == {PathWav}

\* lines 48-66 and 73-81: process up to its call of speech_to_text, or up to
\* its return when it makes none; self.text_to_speech is defined nowhere in
\* the class, so the call raises unless a base class supplies it
ProcessCall(p, d) ==
  /\ \A q \in Invocations : proc_pc[q] = "idle" /\ pc[q] = "idle"
  /\ input_data' = [input_data EXCEPT ![p] = d]
  /\ IF Mode(d) = "transcribe" /\ PathArgument(d) # <<>> /\ ExistsOnDisk(PathArgument(d))
       THEN /\ proc_pc' = [proc_pc EXCEPT ![p] = "transcribing"]
            /\ pc' = [pc EXCEPT ![p] = "open"]
            /\ audio_file_path' = [audio_file_path EXCEPT ![p] = PathArgument(d)]
            /\ UNCHANGED proc_response
       ELSE /\ \E tts \in {"returns", "raises"} :
                 LET out ==
                       IF Mode(d) = "transcribe"
                         THEN [pc |-> "done",
                               response |->
                                 IF PathArgument(d) = <<>>
                                   THEN CreateResponse([error |-> "Missing audio file path"], "error")
                                   ELSE CreateResponse([error |-> "Audio file not found"], "error")]
                       ELSE IF Mode(d) = "text-to-speech"
                         THEN IF TextArgument(d) = ""
                                THEN [pc |-> "done",
                                      response |-> CreateResponse([error |-> "Missing text"], "error")]
                              ELSE IF tts = "returns"
                                THEN [pc |-> "done",
                                      response |-> CreateResponse([output_file |-> "out"], "success")]
                              ELSE Caught("AttributeError")
                       ELSE [pc |-> "done",
                             response |-> CreateResponse([error |-> "Invalid mode"], "error")]
                 IN /\ proc_pc' = [proc_pc EXCEPT ![p] = out.pc]
                    /\ proc_response' = [proc_response EXCEPT ![p] = out.response]
            /\ UNCHANGED <<pc, audio_file_path>>
  /\ UNCHANGED <<stt_client, content, config, response, enc_i, rate_j, result,
                 calls, first, second, answer, raisedIn, removed, routeVars>>

\* lines 100-206, run inside process
Transcribing(p) ==
  /\ proc_pc[p] = "transcribing"
  /\ ReadAudio(p) \/ PrimaryCall(p) \/ SecondaryCall(p) \/ SweepAttempt(p)

\* lines 68-71, or 83-85 when speech_to_text raised
ProcessFinish(p) ==
  /\ proc_pc[p] = "transcribing"
  /\ pc[p] \in {"done", "raised"}
  /\ LET out == IF pc[p] = "done"
                  THEN [pc |-> "done",
                        response |-> CreateResponse([transcript |-> result[p]], "success")]
                  ELSE Caught("FileNotFoundError")
     IN /\ proc_pc' = [proc_pc EXCEPT ![p] = out.pc]
        /\ proc_response' = [proc_response EXCEPT ![p] = out.response]
  /\ UNCHANGED <<sttVars, removed, input_data, routeVars>>

\* the caller of process has its response
ProcessReturn(p) ==
  /\ proc_pc[p] \in {"done", "raised"}
  /\ proc_pc' = [proc_pc EXCEPT ![p] = "idle"]
  /\ input_data' = [input_data EXCEPT ![p] = NoInput]
  /\ proc_response' = [proc_response EXCEPT ![p] = NoResponse]
  /\ pc' = [pc EXCEPT ![p] = "idle"]
  /\ FreshFrame(p)
  /\ UNCHANGED <<stt_client, removed, routeVars>>

\* a file is deleted by something other than the agent
RemoveFile(path) ==
  /\ path \notin removed
  /\ removed' = removed \cup {path}
  /\ UNCHANGED <<sttVars, proc_pc, input_data, proc_response, routeVars>>

NextProcess ==
  \/ \E p \in Invocations :
       \/ \E d \in ProcessInputs : ProcessCall(p, d)
       \/ Transcribing(p)
       \/ ProcessFinish(p)
       \/ ProcessReturn(p)
  \/ \E path \in Removable : RemoveFile(path)

\* calls of process, one at a time, on an agent whose recognizer is
\* unconstrained
SpecProcess == Init /\ [][NextProcess]_vars

(* ------------------------- process_voice_input ------------------------- *)

\* the fields VoiceProcessResponse requires
RequiredFields ==
  {"success", "result", "timestamp", "processing_time_ms", "request_id"}

\* the keyword arguments the except clause constructs the response from
ExceptFields == {"success", "error", "request_id", "processing_time"}

\* pydantic: a model is constructed only when every required field is given
Validates(fields) == RequiredFields \subseteq fields

\* lines 148-155: the except clause either returns its response or raises
\* the validation error of the response it could not construct
ExceptBranch(r) ==
  IF Validates(ExceptFields)
    THEN [pc |-> "responded",
          http |-> [status_code |-> 200, success |-> FALSE, request_id |-> r]]
    ELSE [pc |-> "propagated", http |-> NoHttp]

\* what awaiting audio.read() and writing the temp file can do
UploadOutcomes == {"saved", "read raises", "open raises", "write raises"}

\* what awaiting processor.process_request can do: a dict that reports
\* success, a dict with success False, None or an empty dict, a dict whose
\* "result" is not a dict, an exception
ProcessorOutcomes == {"success", "failure", "nothing", "malformed", "raises"}

\* lines 51-61: the request arrives, with or without an audio part
Receive(r, audio) ==
  /\ req_pc[r] = "idle"
  /\ has_audio' = [has_audio EXCEPT ![r] = audio]
  /\ req_pc' = [req_pc EXCEPT ![r] = IF audio THEN "reading" ELSE "processing"]
  /\ UNCHANGED <<sttVars, processVars, audio_data, temp_files, scheduled,
                 http_response, proc_outcome>>

\* lines 62-71: audio.read() resumes and the bytes go to
\* uploads/temp_audio_<request_id>.webm; open(..., "wb") creates the file
\* before write can fail
SaveUpload(r, outcome) ==
  /\ req_pc[r] = "reading"
  /\ temp_files' = IF outcome \in {"saved", "write raises"}
                     THEN temp_files \cup {r} ELSE temp_files
  /\ audio_data' = [audio_data EXCEPT ![r] = (outcome = "saved")]
  /\ IF outcome = "saved"
       THEN /\ req_pc' = [req_pc EXCEPT ![r] = "processing"]
            /\ UNCHANGED http_response
       ELSE /\ req_pc' = [req_pc EXCEPT ![r] = ExceptBranch(r).pc]
            /\ http_response' = [http_response EXCEPT ![r] = ExceptBranch(r).http]
  /\ UNCHANGED <<sttVars, processVars, has_audio, scheduled, proc_outcome>>

\* lines 89-155: processor.process_request resumes; the processor may have
\* deleted the temp file itself.  The removal is scheduled at lines 92-93
\* only when the processor returned; response_data is bound at line 111
\* only, so line 137 raises when the result is falsy
ProcessDone(r, outcome, deletes) ==
  /\ req_pc[r] = "processing"
  /\ proc_outcome' = [proc_outcome EXCEPT ![r] = outcome]
  /\ temp_files' = IF deletes THEN temp_files \ {r} ELSE temp_files
  /\ scheduled' = [scheduled EXCEPT ![r] =
                     outcome # "raises" /\ audio_data[r] /\ r \in temp_files']
  /\ LET out ==
           IF outcome = "success"
             THEN [pc |-> "responded",
                   http |-> [status_code |-> 200, success |-> TRUE, request_id |-> r]]
           ELSE IF outcome = "failure"
             THEN [pc |-> "responded",
                   http |-> [status_code |-> 500, success |-> FALSE, request_id |-> r]]
           ELSE ExceptBranch(r)
     IN /\ req_pc' = [req_pc EXCEPT ![r] = out.pc]
        /\ http_response' = [http_response EXCEPT ![r] = out.http]
  /\ UNCHANGED <<sttVars, processVars, has_audio, audio_data>>

\* the framework runs the background tasks of a response after sending it;
\* a handler that raised has no response to carry them
RunBackground(r) ==
  /\ req_pc[r] = "responded"
  /\ scheduled[r]
  /\ scheduled' = [scheduled EXCEPT ![r] = FALSE]
  /\ temp_files' = temp_files \ {r}
  /\ UNCHANGED <<sttVars, processVars, req_pc, has_audio, audio_data,
                 http_response, proc_outcome>>

NextRoute ==
  \E r \in Requests :
    \/ \E audio \in BOOLEAN : Receive(r, audio)
    \/ \E outcome \in UploadOutcomes : SaveUpload(r, outcome)
    \/ \E outcome \in ProcessorOutcomes, deletes \in BOOLEAN : ProcessDone(r, outcome, deletes)
    \/ RunBackground(r)

\* requests to /process, interleaved where the handler awaits
SpecRoute == Init /\ [][NextRoute]_vars

(* --------------------------- claim vocabulary -------------------------- *)

Finished(p) == pc[p] = "done"

\* the calls of frame p made at one call site
CallsAt(p, phase) == SelectSeq(calls[p], LAMBDA c : c.phase = phase)

\* the (encoding, rate) of each call in a sequence of calls
PairsOf(cs) ==
  [k \in 1..Len(cs) |-> <<cs[k].config.encoding, cs[k].config.sample_rate_hertz>>]

\* the sweep table, flattened as the design document orders it
SweepOrder ==
  <<<<"LINEAR16", 48000>>, <<"LINEAR16", 44100>>, <<"LINEAR16", 16000>>,
    <<"LINEAR16", 8000>>,
    <<"OGG_OPUS", 48000>>, <<"OGG_OPUS", 44100>>, <<"OGG_OPUS", 16000>>,
    <<"OGG_OPUS", 8000>>,
    <<"WEBM_OPUS", 48000>>, <<"WEBM_OPUS", 44100>>, <<"WEBM_OPUS", 16000>>,
    <<"WEBM_OPUS", 8000>>,
    <<"MP3", 48000>>, <<"MP3", 44100>>, <<"MP3", 16000>>, <<"MP3", 8000>>>>

IsPrefix(s, t) == Len(s) <= Len(t) /\ \A k \in 1..Len(s) : s[k] = t[k]

RECURSIVE SpaceJoined(_)
\* the texts with one space between neighbours, built from the last one back
SpaceJoined(texts) ==
  IF Len(texts) = 0 THEN ""
  ELSE IF Len(texts) = 1 THEN texts[1]
  ELSE SpaceJoined(SubSeq(texts, 1, Len(texts) - 1)) \o " " \o texts[Len(texts)]

\* the first alternative of every segment of a response, in order
FirstTexts(results) == [k \in 1..Len(results) |-> Head(results[k])]

Failed(ans) == ans.raised \/ ans.results = <<>>

WebmOgg48000Mono ==
  [encoding |-> "OGG_OPUS", sample_rate_hertz |-> 48000, audio_channel_count |-> 1,
   language_code |-> "en-US", enable_automatic_punctuation |-> TRUE,
   use_enhanced |-> TRUE, model |-> "latest_long"]

Linear16NoRate ==
  [encoding |-> "LINEAR16", sample_rate_hertz |-> 0, audio_channel_count |-> 0,
   language_code |-> "en-US", enable_automatic_punctuation |-> TRUE,
   use_enhanced |-> TRUE, model |-> "latest_long"]

\* the paths whose extension is .webm in some letter case
WebmPaths == {PathWebm, PathUpperWebm, PathMixedWebm}

(* ------------------------------- claims -------------------------------- *)

\* C1: once the bytes are read, speech_to_text never raises: an exception
\* leaves it only from opening the file, before any recognizer call, and a
\* finished invocation has returned the silence sentinel, the failure
\* sentinel, or the joined transcript of the last recognizer response.
C1_NeverRaises ==
  \A p \in Invocations :
    /\ pc[p] = "raised" => content[p] = NoContent /\ calls[p] = <<>>
    /\ Finished(p) =>
         \/ result[p] = SilenceSentinel
         \/ result[p] = FailureSentinel
         \/ /\ ~Failed(answer[p])
            /\ result[p] = SpaceJoined(FirstTexts(answer[p].results))

\* an invocation whose primary call and some sweep call raised has returned
C1_Witness ==
  \E p \in Invocations :
    Finished(p) /\ raisedIn[p] = {"primary", "sweep"} /\ result[p] # FailureSentinel

\* C2 as stated: whenever the primary call returned without raising, no
\* sweep attempt is made, whatever the secondary call does.
C2_SweepOnlyAfterPrimaryRaise ==
  \A p \in Invocations :
    (first[p] # NoAnswer /\ ~first[p].raised) =>
      (pc[p] # "sweep" /\ CallsAt(p, "sweep") = <<>>)

\* C2 amended: the sweep is entered only when a call of the try block
\* raised, the primary call or the secondary call; when neither raised no
\* sweep attempt is made.
C2_SweepOnlyAfterTryRaise ==
  \A p \in Invocations :
    (pc[p] = "sweep" \/ CallsAt(p, "sweep") # <<>>) =>
      \/ first[p].raised
      \/ (first[p] = Returns(<<>>) /\ second[p].raised)

\* a sweep attempt made after the primary call returned and the secondary
\* call raised
C2_Witness ==
  \E p \in Invocations :
    /\ ~first[p].raised /\ second[p].raised
    /\ CallsAt(p, "sweep") # <<>>

\* C3: primary and secondary both returning zero segments gives exactly the
\* silence sentinel after exactly two calls, and the silence sentinel is
\* returned only when no recognizer call raised.
C3_Silence ==
  \A p \in Invocations :
    /\ (Finished(p) /\ first[p] = Returns(<<>>) /\ second[p] = Returns(<<>>)) =>
         (result[p] = SilenceSentinel /\ Len(calls[p]) = 2)
    /\ result[p] = SilenceSentinel =>
         (raisedIn[p] = {} /\ ~first[p].raised /\ ~second[p].raised)

C3_Witness ==
  \E p \in Invocations :
    /\ Finished(p) /\ result[p] = SilenceSentinel
    /\ PairsOf(calls[p]) = <<<<"LINEAR16", 0>>, <<"WEBM_OPUS", 48000>>>>

\* C4: the sweep attempts are a prefix of the table in encoding-outer,
\* rate-inner order; while the sweep goes on every attempt so far raised or
\* returned zero segments; a sweep attempt that returned segments ended the
\* invocation with its joined transcript.
C4_SweepOrder ==
  \A p \in Invocations :
    /\ IsPrefix(PairsOf(CallsAt(p, "sweep")), SweepOrder)
    /\ \A k \in 1..Len(calls[p]) :
         calls[p][k].phase = "sweep" => calls[p][k].config.audio_channel_count = 0
    /\ (pc[p] = "sweep" /\ CallsAt(p, "sweep") # <<>>) => Failed(answer[p])
    /\ (CallsAt(p, "sweep") # <<>> /\ ~Failed(answer[p])) =>
         /\ Finished(p)
         /\ result[p] = SpaceJoined(FirstTexts(answer[p].results))

\* the primary call raised, (OGG_OPUS, 44100) was the first sweep pair to
\* return segments: 6 attempts, and the result is its transcript
C4_Witness ==
  \E p \in Invocations :
    /\ Finished(p) /\ first[p].raised
    /\ Len(CallsAt(p, "sweep")) = 6
    /\ PairsOf(calls[p])[Len(calls[p])] = <<"OGG_OPUS", 44100>>
    /\ answer[p] = Returns(<<<<"hello">>, <<"world", "word">>>>)
    /\ result[p] = "hello world"

\* C5: a sweep attempt that raised or returned zero segments ends the
\* invocation only when it was the 16th, and then with the failure
\* sentinel; the failure sentinel is returned only after all 16 pairs were
\* attempted.
C5_SweepExhaustion ==
  \A p \in Invocations :
    /\ (Finished(p) /\ CallsAt(p, "sweep") # <<>> /\ Failed(answer[p])) =>
         (PairsOf(CallsAt(p, "sweep")) = SweepOrder /\ result[p] = FailureSentinel)
    /\ result[p] = FailureSentinel =>
         (Finished(p) /\ PairsOf(CallsAt(p, "sweep")) = SweepOrder /\ Failed(answer[p]))

\* every call raised: the primary and all 16 sweep pairs
C5_Witness ==
  \E p \in Invocations :
    /\ result[p] = FailureSentinel
    /\ raisedIn[p] = {"primary", "sweep"}
    /\ Len(calls[p]) = 17

\* C6: after the primary call raised, the next call is the first sweep
\* pair (LINEAR16, 48000), the secondary call is never made, and the primary
\* configuration is not submitted again.
C6_NoRetryAfterPrimaryRaise ==
  \A p \in Invocations :
    first[p].raised =>
      /\ calls[p][1].config \in {WebmOgg48000Mono, Linear16NoRate}
      /\ CallsAt(p, "secondary") = <<>>
      /\ pc[p] # "secondary"
      /\ Len(calls[p]) >= 2 =>
           /\ calls[p][2].phase = "sweep"
           /\ PairsOf(calls[p])[2] = <<"LINEAR16", 48000>>
      /\ \A k \in 2..Len(calls[p]) : calls[p][k].config # calls[p][1].config

\* the primary call on a .webm file raised and the whole sweep followed
C6_Witness ==
  \E p \in Invocations :
    /\ first[p].raised
    /\ calls[p][1].config = WebmOgg48000Mono
    /\ Len(calls[p]) = 17

\* C7: no call raising, the primary call returning zero segments and the
\* WEBM_OPUS@48000 call returning segments gives the joined transcript of
\* that call after exactly two calls, with no sweep attempt.
C7_SecondaryTranscript ==
  \A p \in Invocations :
    (/\ Finished(p)
     /\ first[p] = Returns(<<>>)
     /\ second[p] # NoAnswer /\ ~Failed(second[p])) =>
      /\ result[p] = SpaceJoined(FirstTexts(second[p].results))
      /\ Len(calls[p]) = 2
      /\ calls[p][1].phase = "primary"
      /\ calls[p][2].config =
           [encoding |-> "WEBM_OPUS", sample_rate_hertz |-> 48000,
            audio_channel_count |-> 0, language_code |-> "en-US",
            enable_automatic_punctuation |-> TRUE, use_enhanced |-> TRUE,
            model |-> "latest_long"]
      /\ CallsAt(p, "sweep") = <<>>

C7_Witness ==
  \E p \in Invocations :
    /\ Finished(p) /\ raisedIn[p] = {}
    /\ first[p] = Returns(<<>>)
    /\ second[p] = Returns(<<<<"world", "word">>, <<" hi ">>>>)
    /\ result[p] = "world  hi "

\* C8: the first call's configuration follows from the extension alone,
\* compared without regard to letter case: .webm gives OGG_OPUS, 48000 Hz,
\* one channel; anything else gives LINEAR16 with no rate and no channel
\* count.
C8_PrimaryConfigByExtension ==
  \A p \in Invocations :
    calls[p] # <<>> =>
      /\ calls[p][1].phase = "primary"
      /\ calls[p][1].config =
           IF audio_file_path[p] \in WebmPaths THEN WebmOgg48000Mono ELSE Linear16NoRate

\* a file whose extension is spelled .WEBM or .WebM was submitted as OGG_OPUS
C8_Witness ==
  \E p \in Invocations :
    /\ audio_file_path[p] \in {PathUpperWebm, PathMixedWebm}
    /\ calls[p] # <<>>
    /\ calls[p][1].config.encoding = "OGG_OPUS"

\* C9: a returned transcript is the first alternatives of all segments of
\* the one response it came from, in order, with exactly one space between
\* neighbours and nothing trimmed, dropped or merged.
C9_JoinRule ==
  \A p \in Invocations :
    (Finished(p) /\ result[p] \notin {SilenceSentinel, FailureSentinel}) =>
      /\ ~answer[p].raised
      /\ response[p] = answer[p].results
      /\ result[p] = SpaceJoined(FirstTexts(response[p]))
      /\ Len(response[p]) = 1 => result[p] = response[p][1][1]
      /\ response[p] = <<<<"hello">>, <<"world", "word">>>> => result[p] = "hello world"
      /\ response[p] = <<<<"">>, <<" hi ">>>> => result[p] = "  hi "
      /\ response[p] = <<<<"hello">>, <<"hello">>>> => result[p] = "hello hello"

C9_Witness ==
  \E p \in Invocations :
    /\ Finished(p)
    /\ response[p] = <<<<"hello">>, <<"world", "word">>>>
    /\ result[p] = "hello world"

\* C10: on one agent with a deterministic recognizer, two invocations given
\* the same bytes and the same extension (up to letter case) end alike: the
\* same string returned and the same calls made, whatever else ran before
\* them or runs between their steps.
C10_Reentrant ==
  \A p, q \in Invocations :
    (/\ pc[p] \in {"done", "raised"} /\ pc[q] \in {"done", "raised"}
     /\ audio_file_path[p] \in DOMAIN Disk <=> audio_file_path[q] \in DOMAIN Disk
     /\ content[p] = content[q]
     /\ Lower(splitext(audio_file_path[p])) = Lower(splitext(audio_file_path[q]))) =>
      /\ pc[p] = pc[q]
      /\ result[p] = result[q]
      /\ calls[p] = calls[q]

\* two invocations on differently named files with the same bytes both went
\* through the sweep
C10_Witness ==
  \E p, q \in Invocations :
    /\ p # q /\ Finished(p) /\ Finished(q)
    /\ audio_file_path[p] = PathWebm /\ audio_file_path[q] = PathUpperWebm
    /\ CallsAt(p, "sweep") # <<>>
    /\ result[p] = " hi "

\* C11: (every segment carrying an alternative) no non-empty result is
\* discarded: once a recognizer call of an invocation has returned at least
\* one segment, the invocation has finished with the joined transcript of
\* that call, and it makes no further call.
C11_NoResultDiscarded ==
  [][\A p \in Invocations :
       /\ (calls'[p] # <<>> /\ ~Failed(answer'[p])) =>
            /\ pc'[p] = "done"
            /\ \A k \in 1..Len(answer'[p].results) : Len(answer'[p].results[k]) >= 1
            /\ result'[p] = SpaceJoined(FirstTexts(answer'[p].results))
       /\ (calls[p] # <<>> /\ ~Failed(answer[p])) =>
            (calls'[p] = calls[p] \/ calls'[p] = <<>>)]_vars

\* the primary call returned one segment and the invocation ended there
C11_Witness ==
  \E p \in Invocations :
    /\ Finished(p) /\ Len(calls[p]) = 1
    /\ first[p] = Returns(<<<<"world", "word">>>>)
    /\ result[p] = "world"

\* C12: an invocation makes at most 18 recognizer calls, one primary, at
\* most one secondary and at most 16 sweep attempts with no pair attempted
\* twice, and, every call returning or raising, it ends.
C12_BoundedTermination ==
  /\ [](\A p \in Invocations :
          /\ Len(calls[p]) <= 18
          /\ Len(CallsAt(p, "primary")) <= 1
          /\ Len(CallsAt(p, "secondary")) <= 1
          /\ Len(CallsAt(p, "sweep")) <= 16
          /\ \A k, m \in 1..Len(CallsAt(p, "sweep")) :
               k # m => PairsOf(CallsAt(p, "sweep"))[k] # PairsOf(CallsAt(p, "sweep"))[m])
  /\ (\E p \in Invocations : pc[p] = "open")
       ~> (\E p \in Invocations : pc[p] \in {"done", "raised"})

\* the longest invocation: primary empty, secondary raised, 16 failed pairs
C12_Witness ==
  \E p \in Invocations :
    /\ Finished(p)
    /\ Len(calls[p]) = 18
    /\ Len(CallsAt(p, "sweep")) = 16

\* C13 as stated: within one invocation no configuration is submitted to
\* the recognizer more than once.
C13_NoConfigTwice ==
  \A p \in Invocations :
    \A k, m \in 1..Len(calls[p]) : k # m => calls[p][k].config # calls[p][m].config

\* C13 amended: the only configuration submitted twice is WEBM_OPUS@48000
\* without channel count, once as the secondary call, which raised, and once
\* as the 9th pair of the sweep that followed; nothing is submitted three
\* times.
C13_OnlySecondaryTwice ==
  \A p \in Invocations :
    \A k, m \in 1..Len(calls[p]) :
      (k < m /\ calls[p][k].config = calls[p][m].config) =>
        /\ k = 2 /\ m = 11
        /\ calls[p][k].phase = "secondary" /\ calls[p][m].phase = "sweep"
        /\ second[p].raised
        /\ PairsOf(calls[p])[m] = <<"WEBM_OPUS", 48000>>
        /\ calls[p][m].config.audio_channel_count = 0

\* the secondary call raised and the sweep reached its 9th pair
C13_Witness ==
  \E p \in Invocations :
    /\ second[p].raised
    /\ Len(CallsAt(p, "sweep")) >= 9
    /\ calls[p][2].config = calls[p][11].config


\* the non-empty paths a dictionary carries under audio_file_path or audio_data
Supplied(d) ==
  {d[k] : k \in {"audio_file_path", "audio_data"} \cap DOMAIN d} \ {<<>>}

AsksTranscribe(d) == "action" \in DOMAIN d /\ d.action = "transcribe"

AsksOther(d) ==
  "action" \notin DOMAIN d \/ d.action \notin {"transcribe", "text-to-speech"}

Over(r) == req_pc[r] \in {"responded", "propagated"}

\* C14: once the handler is through with a request that uploaded audio, the
\* temp file it wrote is gone or its removal is scheduled on the response,
\* whatever the processor did.
C14_TempFileRemoved ==
  \A r \in Requests :
    (Over(r) /\ has_audio[r] /\ r \in temp_files) =>
      (scheduled[r] /\ req_pc[r] = "responded")

\* C15: no request ends with an exception leaving the handler; one whose
\* upload or processor raised ends with a response that has success false
\* and carries the request_id.
C15_NeverPropagates ==
  \A r \in Requests :
    /\ req_pc[r] # "propagated"
    /\ (Over(r) /\ proc_outcome[r] \in {"none", "raises"}) =>
         (~http_response[r].success /\ http_response[r].request_id = r)

=============================================================================
